---- MODULE Spec2Model ----
(***************************************************************************)
(* funfsm: the synchronous state-machine engine, the constraints registry  *)
(* and the Checker that replays a message sequence against the engine,     *)
(* instantiated with the bowl-of-food machine of tests/bowl_fsm.rs.        *)
(***************************************************************************)
EXTENDS Integers, Sequences, FiniteSets, TLC

(* ------------------------------------------------------------------ *)
(* Bounds of the model                                                *)
(* ------------------------------------------------------------------ *)

\* Longest message sequence handed to Checker::check under Spec.
MaxLen == 3

(* ------------------------------------------------------------------ *)
(* Program constants                                                  *)
(* ------------------------------------------------------------------ *)

MAX_RESERVES == 10
REFILL_THRESHOLD == 9
\* u8: the width of Context.contents, Context.reserves and the message payloads
U8 == 256
\* contents of a bowl that was just filled
FULL_BOWL == 100
\* payload of the StoreReq::Buy request
BUY_AMOUNT == 10

(* ------------------------------------------------------------------ *)
(* Domain values: Context, BowlMsg, StoreReq                          *)
(* ------------------------------------------------------------------ *)

StateNames == {"empty", "full"}

\* Context::new()
NewContext == [contents |-> 0, reserves |-> MAX_RESERVES]

Meow == [type |-> "Meow", arg |-> 0]
Eat(pct) == [type |-> "Eat", arg |-> pct]
Bowls(num) == [type |-> "StoreRpy", arg |-> num]
Buy(n) == [type |-> "Buy", arg |-> n]

(* ------------------------------------------------------------------ *)
(* State functions.  A state function returns the name of the next    *)
(* state function, the mutated context and the outputs; `panicked`    *)
(* is set when a u8 operation overflows in a build with overflow      *)
(* checks (the context is then as it was when the panic was raised).  *)
(* Without overflow checks the operation wraps modulo 2^8.            *)
(* ------------------------------------------------------------------ *)

Next_(name, c, output) ==
    [next |-> name, ctx |-> c, output |-> output, panicked |-> FALSE]

Panic(name, c) ==
    [next |-> name, ctx |-> c, output |-> <<>>, panicked |-> TRUE]

\* empty that requests a restock on every fill, whatever the reserves left
empty_AlwaysBuys(c, m, oc) ==
    IF m.type = "Meow"
    THEN IF c.reserves > 0
         THEN LET c1 == [contents |-> FULL_BOWL, reserves |-> c.reserves - 1]
              IN  Next_("full", c1, <<Buy(BUY_AMOUNT)>>)
         ELSE Next_("empty", c, <<>>)
    ELSE IF m.type = "StoreRpy"
    THEN LET d   == m.arg - 1
             sum == c.reserves + (d % U8)
         IN  IF oc /\ (d < 0 \/ sum >= U8)
             THEN Panic("empty", c)
             ELSE Next_("full",
                        [contents |-> FULL_BOWL, reserves |-> sum % U8],
                        <<>>)
    ELSE Next_("empty", c, <<>>)

\* empty without the `ctx.reserves > 0` test
empty_NoReservesTest(c, m, oc) ==
    IF m.type = "Meow"
    THEN LET c1 == [contents |-> FULL_BOWL, reserves |-> (c.reserves - 1) % U8]
         IN  IF oc /\ c.reserves = 0
             THEN Panic("empty", c)
             ELSE IF c1.reserves <= REFILL_THRESHOLD
             THEN Next_("full", c1, <<Buy(BUY_AMOUNT)>>)
             ELSE Next_("full", c1, <<>>)
    ELSE IF m.type = "StoreRpy"
    THEN LET d   == m.arg - 1
             sum == c.reserves + (d % U8)
         IN  IF oc /\ (d < 0 \/ sum >= U8)
             THEN Panic("empty", c)
             ELSE Next_("full",
                        [contents |-> FULL_BOWL, reserves |-> sum % U8],
                        <<>>)
    ELSE Next_("empty", c, <<>>)

\* empty with its last line written next!(full)
empty_FallsThroughToFull(c, m, oc) ==
    IF m.type = "Meow"
    THEN IF c.reserves > 0
         THEN LET c1 == [contents |-> FULL_BOWL, reserves |-> c.reserves - 1]
              IN  IF c1.reserves <= REFILL_THRESHOLD
                  THEN Next_("full", c1, <<Buy(BUY_AMOUNT)>>)
                  ELSE Next_("full", c1, <<>>)
         ELSE Next_("empty", c, <<>>)
    ELSE IF m.type = "StoreRpy"
    THEN LET d   == m.arg - 1
             sum == c.reserves + (d % U8)
         IN  IF oc /\ (d < 0 \/ sum >= U8)
             THEN Panic("empty", c)
             ELSE Next_("full",
                        [contents |-> FULL_BOWL, reserves |-> sum % U8],
                        <<>>)
    ELSE Next_("full", c, <<>>)

\* empty without the `ctx.contents = 100` of the StoreRpy branch
empty_RestockLeavesBowl(c, m, oc) ==
    IF m.type = "Meow"
    THEN IF c.reserves > 0
         THEN LET c1 == [contents |-> FULL_BOWL, reserves |-> c.reserves - 1]
              IN  IF c1.reserves <= REFILL_THRESHOLD
                  THEN Next_("full", c1, <<Buy(BUY_AMOUNT)>>)
                  ELSE Next_("full", c1, <<>>)
         ELSE Next_("empty", c, <<>>)
    ELSE IF m.type = "StoreRpy"
    THEN LET d   == m.arg - 1
             sum == c.reserves + (d % U8)
         IN  IF oc /\ (d < 0 \/ sum >= U8)
             THEN Panic("empty", c)
             ELSE Next_("full", [c EXCEPT !.reserves = sum % U8], <<>>)
    ELSE Next_("empty", c, <<>>)

\* empty with the refill test written reserves < REFILL_THRESHOLD
empty_StrictThreshold(c, m, oc) ==
    IF m.type = "Meow"
    THEN IF c.reserves > 0
         THEN LET c1 == [contents |-> FULL_BOWL, reserves |-> c.reserves - 1]
              IN  IF c1.reserves < REFILL_THRESHOLD
                  THEN Next_("full", c1, <<Buy(BUY_AMOUNT)>>)
                  ELSE Next_("full", c1, <<>>)
         ELSE Next_("empty", c, <<>>)
    ELSE IF m.type = "StoreRpy"
    THEN LET d   == m.arg - 1
             sum == c.reserves + (d % U8)
         IN  IF oc /\ (d < 0 \/ sum >= U8)
             THEN Panic("empty", c)
             ELSE Next_("full",
                        [contents |-> FULL_BOWL, reserves |-> sum % U8],
                        <<>>)
    ELSE Next_("empty", c, <<>>)

empty(c, m, oc) ==
    IF m.type = "Meow"
    THEN IF c.reserves > 0
         THEN LET c1 == [contents |-> FULL_BOWL, reserves |-> c.reserves - 1]
              IN  IF c1.reserves <= REFILL_THRESHOLD
                  THEN Next_("full", c1, <<Buy(BUY_AMOUNT)>>)
                  ELSE Next_("full", c1, <<>>)
         ELSE Next_("empty", c, <<>>)
    ELSE IF m.type = "StoreRpy"
    THEN LET d   == m.arg - 1
             sum == c.reserves + (d % U8)
         IN  IF oc /\ (d < 0 \/ sum >= U8)
             THEN Panic("empty", c)
             ELSE Next_("full",
                        [contents |-> FULL_BOWL, reserves |-> sum % U8],
                        <<>>)
    ELSE Next_("empty", c, <<>>)

\* full that tops the bowl up on a Meow, as empty does
full_MeowTopsUp(c, m, oc) ==
    IF m.type = "Eat"
    THEN IF m.arg >= c.contents
         THEN Next_("empty", [c EXCEPT !.contents = 0], <<>>)
         ELSE Next_("full", [c EXCEPT !.contents = c.contents - m.arg], <<>>)
    ELSE IF m.type = "StoreRpy"
    THEN LET sum == c.reserves + m.arg
         IN  IF oc /\ sum >= U8
             THEN Panic("full", c)
             ELSE Next_("full", [c EXCEPT !.reserves = sum % U8], <<>>)
    ELSE IF c.reserves > 0
    THEN Next_("full", [contents |-> FULL_BOWL, reserves |-> c.reserves - 1], <<>>)
    ELSE Next_("full", c, <<>>)

\* full with the boundary test written pct > ctx.contents
full_StrictBoundary(c, m, oc) ==
    IF m.type = "Eat"
    THEN IF m.arg > c.contents
         THEN Next_("empty", [c EXCEPT !.contents = 0], <<>>)
         ELSE Next_("full", [c EXCEPT !.contents = c.contents - m.arg], <<>>)
    ELSE IF m.type = "StoreRpy"
    THEN LET sum == c.reserves + m.arg
         IN  IF oc /\ sum >= U8
             THEN Panic("full", c)
             ELSE Next_("full", [c EXCEPT !.reserves = sum % U8], <<>>)
    ELSE Next_("full", c, <<>>)

full(c, m, oc) ==
    IF m.type = "Eat"
    THEN IF m.arg >= c.contents
         THEN Next_("empty", [c EXCEPT !.contents = 0], <<>>)
         ELSE Next_("full", [c EXCEPT !.contents = c.contents - m.arg], <<>>)
    ELSE IF m.type = "StoreRpy"
    THEN LET sum == c.reserves + m.arg
         IN  IF oc /\ sum >= U8
             THEN Panic("full", c)
             ELSE Next_("full", [c EXCEPT !.reserves = sum % U8], <<>>)
    ELSE Next_("full", c, <<>>)

\* state_fn!(name): the state function registered under a name
StateFn(name, c, m, oc) ==
    IF name = "empty" THEN empty(c, m, oc) ELSE full(c, m, oc)

(* ------------------------------------------------------------------ *)
(* Engine: holds the current state function (by name) and the context *)
(* ------------------------------------------------------------------ *)

\* Fsm::new(Context::new(), state_fn!(empty))
NewFsm == [state |-> "empty", ctx |-> NewContext]

\* Fsm::get_state: the current state name and a view of the context
get_state(f) == <<f.state, f.ctx>>

\* send that mutates the context but keeps holding the old state function
send_KeepsStateFn(f, m, oc) ==
    LET r == StateFn(f.state, f.ctx, m, oc)
    IN  [fsm      |-> IF r.panicked THEN f ELSE [state |-> f.state, ctx |-> r.ctx],
         output   |-> r.output,
         panicked |-> r.panicked]

\* Fsm::send: run the held state function once on the context and the
\* message, hold the state function it returned, return its outputs
send(f, m, oc) ==
    LET r == StateFn(f.state, f.ctx, m, oc)
    IN  [fsm      |-> IF r.panicked THEN f ELSE [state |-> r.next, ctx |-> r.ctx],
         output   |-> r.output,
         panicked |-> r.panicked]

(* ------------------------------------------------------------------ *)
(* Constraints registry.  A registered predicate is kept under the    *)
(* label the registration gave it; Holds evaluates a labelled         *)
(* predicate on a context.                                            *)
(* ------------------------------------------------------------------ *)

NoPred == "-"

\* the context predicates registered by check_constraints, and two more
\* that some reachable contexts violate
Holds(label, c) ==
    CASE label = "contents == 0" -> c.contents = 0
      [] label = "contents > 0 && contents <= 100" ->
             c.contents > 0 /\ c.contents <= FULL_BOWL
      [] label = "contents <= 100" -> c.contents <= FULL_BOWL
      [] label = "contents >= 50" -> c.contents >= 50
      [] label = "contents <= 70" -> c.contents <= 70

\* fn empty_to_full(init_ctx, final_ctx, msg, _output)
empty_to_full(init_ctx, final_ctx, m, output) ==
    /\ init_ctx.contents = 0
    /\ final_ctx.contents = FULL_BOWL
    /\ m.type \in {"StoreRpy", "Meow"}

\* fn full_to_empty(init_ctx, final_ctx, msg, _output)
full_to_empty(init_ctx, final_ctx, m, output) ==
    /\ init_ctx.contents > 0
    /\ final_ctx.contents = 0
    /\ m.type = "Eat"

\* a transition rule over the outputs: the transition requests nothing
no_output(init_ctx, final_ctx, m, output) == output = <<>>

\* a transition rule over both contexts: nothing was eaten
not_eaten(init_ctx, final_ctx, m, output) ==
    final_ctx.contents >= init_ctx.contents

Rule(label, init_ctx, final_ctx, m, output) ==
    CASE label = "empty_to_full" -> empty_to_full(init_ctx, final_ctx, m, output)
      [] label = "full_to_empty" -> full_to_empty(init_ctx, final_ctx, m, output)
      [] label = "no_output" -> no_output(init_ctx, final_ctx, m, output)
      [] label = "not_eaten" -> not_eaten(init_ctx, final_ctx, m, output)

\* Result<(), String>
Ok == [kind |-> "Ok", at |-> "", label |-> ""]
Err(kind, at, label) == [kind |-> kind, at |-> at, label |-> label]
Pending == [kind |-> "pending", at |-> "", label |-> ""]

\* Constraints::new(): nothing registered
NewConstraints ==
    [pre   |-> [s \in StateNames |-> NoPred],
     post  |-> [s \in StateNames |-> NoPred],
     inv   |-> <<>>,
     trans |-> [p \in StateNames \X StateNames |-> NoPred]]

\* precondition!(c, name, predicate): one slot per state name
precondition(c, name, label) == [c EXCEPT !.pre[name] = label]
\* postcondition!(c, name, predicate)
postcondition(c, name, label) == [c EXCEPT !.post[name] = label]
\* invariant!(c, predicate): appended
invariant(c, label) == [c EXCEPT !.inv = Append(@, label)]
\* transition!(c, from => to, rule): keyed by the ordered pair
transition(c, f, t, label) == [c EXCEPT !.trans[<<f, t>>] = label]

\* check_preconditions with a missing registration treated as a failure
check_preconditions_Required(c, name, cx) ==
    IF c.pre[name] = NoPred THEN Err("precondition", name, NoPred)
    ELSE IF Holds(c.pre[name], cx) THEN Ok
    ELSE Err("precondition", name, c.pre[name])

\* Constraints::check_preconditions(state, ctx)
check_preconditions(c, name, cx) ==
    IF c.pre[name] = NoPred THEN Ok
    ELSE IF Holds(c.pre[name], cx) THEN Ok
    ELSE Err("precondition", name, c.pre[name])

\* Constraints::check_postconditions(state, ctx)
check_postconditions(c, name, cx) ==
    IF c.post[name] = NoPred THEN Ok
    ELSE IF Holds(c.post[name], cx) THEN Ok
    ELSE Err("postcondition", name, c.post[name])

\* Constraints::check_invariants(ctx): fails on the first false invariant
check_invariants(c, cx) ==
    LET bad == {k \in 1..Len(c.inv) : ~Holds(c.inv[k], cx)}
    IN  IF bad = {} THEN Ok
        ELSE LET k == CHOOSE k \in bad : \A j \in bad : k <= j
             IN  Err("invariant", ToString(k), c.inv[k])

\* Constraints::check_transitions(from, to, init_ctx, final_ctx, msg, output)
check_transitions(c, f, t, init_ctx, final_ctx, m, output) ==
    IF c.trans[<<f, t>>] = NoPred THEN Ok
    ELSE IF Rule(c.trans[<<f, t>>], init_ctx, final_ctx, m, output) THEN Ok
    ELSE Err("transition", f \o "=>" \o t, c.trans[<<f, t>>])

\* the registry built by check_constraints in tests/bowl_fsm.rs
BowlConstraints ==
    transition(
      transition(
        invariant(
          precondition(
            precondition(NewConstraints, "empty", "contents == 0"),
            "full", "contents > 0 && contents <= 100"),
          "contents <= 100"),
        "empty", "full", "empty_to_full"),
      "full", "empty", "full_to_empty")

(* ------------------------------------------------------------------ *)
(* Inputs: registries and message sequences                           *)
(* ------------------------------------------------------------------ *)

\* the messages of test_check, in order
TestCheckMsgs == <<Meow, Eat(30), Eat(70), Meow, Eat(50), Meow>>

\* the messages of test_state_transitions, in order
TestStateTransitionsMsgs == <<Meow, Eat(30), Meow, Eat(75)>>

Range(q) == {q[k] : k \in 1..Len(q)}

\* messages a check run under Spec draws from
CheckMsgs == {Meow, Eat(30), Eat(70), Bowls(0)}

SeqsUpTo(S, n) == UNION {[1..k -> S] : k \in 0..n}

PreMaps ==
    {NewConstraints.pre,
     BowlConstraints.pre,
     precondition(NewConstraints, "full", "contents <= 70").pre}

PostMaps ==
    {NewConstraints.post,
     postcondition(postcondition(NewConstraints, "empty", "contents == 0"),
                   "full", "contents >= 50").post}

InvSeqs ==
    {<<>>,
     BowlConstraints.inv,
     <<"contents <= 100", "contents >= 50">>,
     <<"contents == 0">>}

TransMaps ==
    {NewConstraints.trans,
     BowlConstraints.trans,
     transition(transition(NewConstraints, "empty", "full", "no_output"),
                "full", "full", "not_eaten").trans}

Registries ==
    {[pre |-> p, post |-> q, inv |-> v, trans |-> t] :
        p \in PreMaps, q \in PostMaps, v \in InvSeqs, t \in TransMaps}

(* ------------------------------------------------------------------ *)
(* State                                                              *)
(* ------------------------------------------------------------------ *)

VARIABLES
    fsm,              \* Checker.fsm: the engine (state name, context)
    constraints,      \* Checker.constraints: the registry
    msgs,             \* the argument of Checker::check
    i,                \* number of messages the loop has taken from msgs
    pc,               \* position in Checker::check
    msg,              \* the loop variable
    from,             \* state name read before send
    ctx,              \* context read before send
    to,               \* state name read after send
    ctx2,             \* context read after send (shadows ctx in the source)
    output,           \* what the last send returned
    result,           \* what check returned
    overflow_checks,  \* whether the build panics on integer overflow
    prior,            \* the messages of the earlier calls of check on this Checker
    sends,            \* history: completed engine send calls of this call of check
    trace,            \* history: the engine after each completed send of this call
    log               \* history: the checks evaluated for the current message

vars == <<fsm, constraints, msgs, i, pc, msg, from, ctx, to, ctx2, output,
          result, overflow_checks, prior, sends, trace, log>>

\* Checker::new(constraints) followed by a call of check(msgs)
InitWith(c, ms) ==
    /\ fsm = NewFsm
    /\ constraints = c
    /\ msgs = ms
    /\ i = 0
    /\ pc = "loop"
    /\ msg = Meow
    /\ from = NewFsm.state
    /\ ctx = NewFsm.ctx
    /\ to = NewFsm.state
    /\ ctx2 = NewFsm.ctx
    /\ output = <<>>
    /\ result = Pending
    /\ overflow_checks \in BOOLEAN
    /\ prior = <<>>
    /\ sends = 0
    /\ trace = <<>>
    /\ log = <<>>

Init == \E c \in Registries, ms \in SeqsUpTo(CheckMsgs, MaxLen) : InitWith(c, ms)

(* ------------------------------------------------------------------ *)
(* Checker::check, one action per statement of the loop body          *)
(* ------------------------------------------------------------------ *)

\* for msg in msgs { let (from, ctx) = self.fsm.get_state();
GetStateFrom ==
    /\ pc = "loop"
    /\ i < Len(msgs)
    /\ i' = i + 1
    /\ msg' = msgs[i + 1]
    /\ from' = get_state(fsm)[1]
    /\ ctx' = get_state(fsm)[2]
    /\ log' = <<>>
    /\ pc' = "pre"
    /\ UNCHANGED <<fsm, constraints, msgs, to, ctx2, output, result,
                   overflow_checks, prior, sends, trace>>

\* CheckPre without the try!: the verdict is dropped and send is reached
CheckPre_DropsError ==
    /\ pc = "pre"
    /\ log' = Append(log, "pre")
    /\ pc' = "send"
    /\ UNCHANGED <<fsm, constraints, msgs, i, msg, from, ctx, to, ctx2, output,
                   result, overflow_checks, prior, sends, trace>>

\* try!(self.constraints.check_preconditions(from, &ctx));
CheckPre ==
    /\ pc = "pre"
    /\ LET r == check_preconditions(constraints, from, ctx)
       IN  /\ log' = Append(log, "pre")
           /\ IF r = Ok
              THEN pc' = "send" /\ UNCHANGED result
              ELSE pc' = "done" /\ result' = r
    /\ UNCHANGED <<fsm, constraints, msgs, i, msg, from, ctx, to, ctx2, output,
                   overflow_checks, prior, sends, trace>>

\* self.fsm.send_msg(msg);
SendMsg ==
    /\ pc = "send"
    /\ LET s == send(fsm, msg, overflow_checks)
       IN  IF s.panicked
           THEN /\ pc' = "panicked"
                /\ UNCHANGED <<fsm, output, sends, trace, log>>
           ELSE /\ pc' = "sent"
                /\ fsm' = s.fsm
                /\ output' = s.output
                /\ sends' = sends + 1
                /\ trace' = Append(trace, [state  |-> s.fsm.state,
                                           ctx    |-> s.fsm.ctx,
                                           output |-> s.output])
                /\ log' = Append(log, "send")
    /\ UNCHANGED <<constraints, msgs, i, msg, from, ctx, to, ctx2, result,
                   overflow_checks, prior>>

\* GetStateTo with a get_state that takes the context out of the engine,
\* leaving Context::default() behind
GetStateTo_TakesContext ==
    /\ pc = "sent"
    /\ to' = get_state(fsm)[1]
    /\ ctx2' = get_state(fsm)[2]
    /\ fsm' = [fsm EXCEPT !.ctx = [contents |-> 0, reserves |-> 0]]
    /\ pc' = "post"
    /\ UNCHANGED <<constraints, msgs, i, msg, from, ctx, output, result,
                   overflow_checks, prior, sends, trace, log>>

\* let (to, ctx) = self.fsm.get_state();
GetStateTo ==
    /\ pc = "sent"
    /\ to' = get_state(fsm)[1]
    /\ ctx2' = get_state(fsm)[2]
    /\ pc' = "post"
    /\ UNCHANGED <<fsm, constraints, msgs, i, msg, from, ctx, output, result,
                   overflow_checks, prior, sends, trace, log>>

\* CheckPost with the postcondition of the state arrived at
CheckPost_ArrivedState ==
    /\ pc = "post"
    /\ LET r == check_postconditions(constraints, to, ctx2)
       IN  /\ log' = Append(log, "post")
           /\ IF r = Ok
              THEN pc' = "inv" /\ UNCHANGED result
              ELSE pc' = "done" /\ result' = r
    /\ UNCHANGED <<fsm, constraints, msgs, i, msg, from, ctx, to, ctx2, output,
                   overflow_checks, prior, sends, trace>>

\* CheckPost with the invariants looked at before the postcondition
CheckPost_InvariantsFirst ==
    /\ pc = "post"
    /\ LET v == check_invariants(constraints, ctx2)
           r == IF v # Ok THEN v
                ELSE check_postconditions(constraints, from, ctx2)
       IN  /\ log' = Append(log, "post")
           /\ IF r = Ok
              THEN pc' = "inv" /\ UNCHANGED result
              ELSE pc' = "done" /\ result' = r
    /\ UNCHANGED <<fsm, constraints, msgs, i, msg, from, ctx, to, ctx2, output,
                   overflow_checks, prior, sends, trace>>

\* try!(self.constraints.check_postconditions(from, &ctx));
CheckPost ==
    /\ pc = "post"
    /\ LET r == check_postconditions(constraints, from, ctx2)
       IN  /\ log' = Append(log, "post")
           /\ IF r = Ok
              THEN pc' = "inv" /\ UNCHANGED result
              ELSE pc' = "done" /\ result' = r
    /\ UNCHANGED <<fsm, constraints, msgs, i, msg, from, ctx, to, ctx2, output,
                   overflow_checks, prior, sends, trace>>

\* CheckInv that looks at the invariants only after the last message
CheckInv_LastOnly ==
    /\ pc = "inv"
    /\ LET r == IF i = Len(msgs) THEN check_invariants(constraints, ctx2) ELSE Ok
       IN  /\ log' = Append(log, "inv")
           /\ IF r = Ok
              THEN pc' = "trans" /\ UNCHANGED result
              ELSE pc' = "done" /\ result' = r
    /\ UNCHANGED <<fsm, constraints, msgs, i, msg, from, ctx, to, ctx2, output,
                   overflow_checks, prior, sends, trace>>

\* try!(self.constraints.check_invariants(&ctx));
CheckInv ==
    /\ pc = "inv"
    /\ LET r == check_invariants(constraints, ctx2)
       IN  /\ log' = Append(log, "inv")
           /\ IF r = Ok
              THEN pc' = "trans" /\ UNCHANGED result
              ELSE pc' = "done" /\ result' = r
    /\ UNCHANGED <<fsm, constraints, msgs, i, msg, from, ctx, to, ctx2, output,
                   overflow_checks, prior, sends, trace>>

\* The arguments of the call check_transitions(from, to, &ctx) in the source:
\* the two state names and the context read after the send (the second
\* `let (to, ctx)` shadows the first ctx).  The context read before the
\* send, the message (moved into send_msg) and the outputs (send_msg's
\* return value is not bound) are not among them.
TransitionArgs == [from |-> from, to |-> to, final_ctx |-> ctx2]

\* CheckTrans without the try!: the verdict is dropped and the loop goes on
CheckTrans_DropsError ==
    /\ pc = "trans"
    /\ log' = Append(log, "trans")
    /\ pc' = "loop"
    /\ UNCHANGED <<fsm, constraints, msgs, i, msg, from, ctx, to, ctx2, output,
                   result, overflow_checks, prior, sends, trace>>

\* try!(self.constraints.check_transitions(from, to, &ctx)); }
\* The call passes TransitionArgs; the rules the tests register are functions
\* of (init_ctx, final_ctx, msg, output), so that their verdict is defined the
\* rule is evaluated on the step's locals for the three pieces the call
\* leaves out.
CheckTrans ==
    /\ pc = "trans"
    /\ LET a == TransitionArgs
           r == check_transitions(constraints, a.from, a.to, ctx, a.final_ctx,
                                  msg, output)
       IN  /\ log' = Append(log, "trans")
           /\ IF r = Ok
              THEN pc' = "loop" /\ UNCHANGED result
              ELSE pc' = "done" /\ result' = r
    /\ UNCHANGED <<fsm, constraints, msgs, i, msg, from, ctx, to, ctx2, output,
                   overflow_checks, prior, sends, trace>>

\* ReturnOk with the Ok(()) inside the loop body: returns after one message
ReturnOk_InsideLoop ==
    /\ pc = "loop"
    /\ (i = Len(msgs) \/ i > 0)
    /\ result' = Ok
    /\ pc' = "done"
    /\ UNCHANGED <<fsm, constraints, msgs, i, msg, from, ctx, to, ctx2, output,
                   overflow_checks, prior, sends, trace, log>>

\* Ok(())
ReturnOk ==
    /\ pc = "loop"
    /\ i = Len(msgs)
    /\ result' = Ok
    /\ pc' = "done"
    /\ UNCHANGED <<fsm, constraints, msgs, i, msg, from, ctx, to, ctx2, output,
                   overflow_checks, prior, sends, trace, log>>

Next ==
    \/ GetStateFrom
    \/ CheckPre
    \/ SendMsg
    \/ GetStateTo
    \/ CheckPost
    \/ CheckInv
    \/ CheckTrans
    \/ ReturnOk

Spec == Init /\ [][Next]_vars

\* check_constraints of tests/bowl_fsm.rs: the bowl registry, and message
\* sequences as long as test_check's over the messages of test_check
InitBowl ==
    \E ms \in [1..Len(TestCheckMsgs) -> Range(TestCheckMsgs)] :
        InitWith(BowlConstraints, ms)

SpecBowl == InitBowl /\ [][Next]_vars

\* registries with postconditions only: every way of registering one of
\* two predicates, or none, under each state name
PostRegistries ==
    {[NewConstraints EXCEPT !.post = q] :
        q \in [StateNames -> {NoPred, "contents == 0", "contents >= 50"}]}

InitPost ==
    \E c \in PostRegistries, ms \in SeqsUpTo(CheckMsgs, MaxLen) : InitWith(c, ms)

SpecPost == InitPost /\ [][Next]_vars

(* ------------------------------------------------------------------ *)
(* Several calls of check on one Checker                              *)
(* ------------------------------------------------------------------ *)

\* the messages one Checker receives over all its calls of check
MaxTotal == MaxLen + 1

\* the registry of check_constraints, one whose invariant fails on a bowl
\* less than half full, and one whose precondition fails on a fresh bowl
CallRegistries ==
    {BowlConstraints,
     invariant(NewConstraints, "contents >= 50"),
     precondition(NewConstraints, "full", "contents <= 70")}

InitCalls ==
    \E c \in CallRegistries, ms \in SeqsUpTo(CheckMsgs, MaxTotal) : InitWith(c, ms)

\* a second call of check that starts from a new LocalFsm
CheckAgain_Resets ==
    /\ pc = "done"
    /\ result = Ok
    /\ \E ms \in SeqsUpTo(CheckMsgs, MaxTotal - Len(prior) - Len(msgs)) :
           /\ prior' = prior \o msgs
           /\ msgs' = ms
    /\ fsm' = NewFsm
    /\ i' = 0
    /\ pc' = "loop"
    /\ result' = Pending
    /\ sends' = 0
    /\ trace' = <<>>
    /\ log' = <<>>
    /\ UNCHANGED <<constraints, msg, from, ctx, to, ctx2, output,
                   overflow_checks>>

\* the caller, after an Ok, calls check(&mut self, msgs) again on the same
\* Checker: self.fsm and self.constraints are the fields the last call left
CheckAgain ==
    /\ pc = "done"
    /\ result = Ok
    /\ \E ms \in SeqsUpTo(CheckMsgs, MaxTotal - Len(prior) - Len(msgs)) :
           /\ prior' = prior \o msgs
           /\ msgs' = ms
    /\ i' = 0
    /\ pc' = "loop"
    /\ result' = Pending
    /\ sends' = 0
    /\ trace' = <<>>
    /\ log' = <<>>
    /\ UNCHANGED <<fsm, constraints, msg, from, ctx, to, ctx2, output,
                   overflow_checks>>

NextCalls ==
    \/ Next
    \/ CheckAgain

SpecCalls == InitCalls /\ [][NextCalls]_vars

(* ------------------------------------------------------------------ *)
(* The engine driven directly, as test_state_transitions drives it    *)
(* ------------------------------------------------------------------ *)

\* payloads of the Eat and StoreRpy messages a client sends
PctValues == {0, 30, 70, 75, 255}
NumValues == {0, 10}

EngineMsgs ==
    Range(TestStateTransitionsMsgs)
        \cup {Eat(p) : p \in PctValues} \cup {Bowls(n) : n \in NumValues}

\* no message was sent yet
NoMsg == [type |-> "None", arg |-> 0]

\* Fsm::new(Context::new(), state_fn!(empty)) held by the test itself
InitEngine ==
    /\ fsm = NewFsm
    /\ constraints = NewConstraints
    /\ msgs = <<>>
    /\ i = 0
    /\ pc = "client"
    /\ msg = NoMsg
    /\ from = NewFsm.state
    /\ ctx = NewFsm.ctx
    /\ to = NewFsm.state
    /\ ctx2 = NewFsm.ctx
    /\ output = <<>>
    /\ result = Pending
    /\ overflow_checks \in BOOLEAN
    /\ prior = <<>>
    /\ sends = 0
    /\ trace = <<>>
    /\ log = <<>>

\* fsm.send(m); let (name, ctx) = fsm.get_state();
\* from and ctx keep what get_state reported before the send
ClientSend(m) ==
    /\ pc = "client"
    /\ msg' = m
    /\ from' = get_state(fsm)[1]
    /\ ctx' = get_state(fsm)[2]
    /\ LET s == send(fsm, m, overflow_checks)
       IN  IF s.panicked
           THEN /\ pc' = "panicked"
                /\ UNCHANGED <<fsm, output, to, ctx2>>
           ELSE /\ pc' = "client"
                /\ fsm' = s.fsm
                /\ output' = s.output
                /\ to' = get_state(s.fsm)[1]
                /\ ctx2' = get_state(s.fsm)[2]
    /\ UNCHANGED <<constraints, msgs, i, result, overflow_checks, prior, sends,
                   trace, log>>

NextEngine == \E m \in EngineMsgs : ClientSend(m)

SpecEngine == InitEngine /\ [][NextEngine]_vars

(* ------------------------------------------------------------------ *)
(* Reference replay: what each step of a check run should see,        *)
(* computed from the inputs alone (registry, messages, build) with    *)
(* the state functions and the registry's checks, not from the        *)
(* Checker's own variables.                                           *)
(* ------------------------------------------------------------------ *)

RECURSIVE Replay(_, _, _)
\* the engine after the first k messages of ms, each applied by one send
Replay(ms, k, oc) ==
    IF k = 0
    THEN [fsm |-> NewFsm, output |-> <<>>, panicked |-> FALSE]
    ELSE LET p == Replay(ms, k - 1, oc)
         IN  IF p.panicked THEN p ELSE send(p.fsm, ms[k], oc)

\* the verdict of step k: the first failing check in the order
\* precondition, postcondition, invariants, transition rule; Ok if none
StepVerdict(c, ms, k, oc) ==
    LET before == Replay(ms, k - 1, oc).fsm
        sent   == Replay(ms, k, oc)
        after  == sent.fsm
        pre    == check_preconditions(c, before.state, before.ctx)
        post   == check_postconditions(c, before.state, after.ctx)
        inv    == check_invariants(c, after.ctx)
        trans  == check_transitions(c, before.state, after.state,
                                    before.ctx, after.ctx, ms[k], sent.output)
    IN  IF pre # Ok THEN pre
        ELSE IF post # Ok THEN post
        ELSE IF inv # Ok THEN inv
        ELSE trans

\* the steps of this run whose verdict is a violation
Violations ==
    {k \in 1..Len(msgs) : StepVerdict(constraints, msgs, k, overflow_checks) # Ok}

\* k is the first message to trigger a violation
FirstViolation(k) == k \in Violations /\ \A j \in Violations : k <= j

Returned == pc = "done"
ReturnedErr == pc = "done" /\ result # Ok

(* ------------------------------------------------------------------ *)
(* C1                                                                 *)
(* ------------------------------------------------------------------ *)

\* C1 (as stated): when check returns an error, the message k it stopped at
\* is the first to trigger a violation, the error is that step's, and
\* exactly k messages were applied to the engine.
C1_AppliesExactlyK ==
    ReturnedErr =>
        /\ FirstViolation(i)
        /\ result = StepVerdict(constraints, msgs, i, overflow_checks)
        /\ sends = i
        /\ Len(trace) = i

\* C1 (amended): when check returns an error, the message k it stopped at is
\* the first to trigger a violation and the error is that step's; exactly k
\* messages were applied when a postcondition, an invariant or a transition
\* rule failed, and exactly k-1 (message k itself was not applied) when a
\* precondition failed; messages k+1..n were never applied.
C1_FailFast ==
    ReturnedErr =>
        /\ FirstViolation(i)
        /\ result = StepVerdict(constraints, msgs, i, overflow_checks)
        /\ sends = (IF result.kind = "precondition" THEN i - 1 ELSE i)
        /\ Len(trace) = sends
        /\ fsm = Replay(msgs, sends, overflow_checks).fsm

\* a postcondition fails at the second of three messages: two were applied
C1_Witness ==
    /\ ReturnedErr
    /\ result.kind = "postcondition"
    /\ i = 2
    /\ sends = 2
    /\ Len(msgs) > 2

(* ------------------------------------------------------------------ *)
(* C2                                                                 *)
(* ------------------------------------------------------------------ *)

\* C2: a failing precondition makes check return that error without calling
\* send for that message or a later one: send is only reached with the
\* precondition of the current state passed, and when check has returned a
\* precondition error the engine's state name and context are what they
\* were on entry to that step.
C2_PreconditionStops ==
    /\ pc \in {"send", "sent", "post", "inv", "trans"} =>
           check_preconditions(constraints, from, ctx) = Ok
    /\ (Returned /\ result.kind = "precondition") =>
           /\ result = check_preconditions(constraints, from, ctx)
           /\ fsm.state = from
           /\ fsm.ctx = ctx
           /\ fsm = Replay(msgs, i - 1, overflow_checks).fsm
           /\ sends = i - 1
           /\ Len(trace) = i - 1
           /\ log = <<"pre">>

\* a precondition fails at the second message with a third still to come
C2_Witness ==
    /\ Returned
    /\ result.kind = "precondition"
    /\ i = 2
    /\ Len(msgs) > 2
    /\ send(fsm, msg, overflow_checks).fsm # fsm

(* ------------------------------------------------------------------ *)
(* C3                                                                 *)
(* ------------------------------------------------------------------ *)

\* C3: check returns Ok if and only if every message was applied (n sends
\* for n messages) and every check of every step passed; otherwise it
\* returns the error of the first failing check.
C3_OkIffAllPassed ==
    Returned =>
        /\ result = Ok <=> (sends = Len(msgs) /\ Violations = {})
        /\ result # Ok =>
               \E k \in Violations :
                   /\ FirstViolation(k)
                   /\ result = StepVerdict(constraints, msgs, k, overflow_checks)

\* a run of several messages under registered contracts that returned Ok
C3_Witness ==
    /\ Returned
    /\ result = Ok
    /\ Len(msgs) > 1
    /\ constraints = BowlConstraints
    /\ sends = Len(msgs)

(* ------------------------------------------------------------------ *)
(* C4                                                                 *)
(* ------------------------------------------------------------------ *)

\* C4: when check returns Ok, every registered invariant holds on the
\* engine's context after every single message of the sequence.
C4_InvariantUniversality ==
    (Returned /\ result = Ok) =>
        /\ Len(trace) = Len(msgs)
        /\ \A j \in 1..Len(trace) :
               /\ trace[j].ctx = Replay(msgs, j, overflow_checks).fsm.ctx
               /\ \A k \in 1..Len(constraints.inv) :
                      Holds(constraints.inv[k], trace[j].ctx)

\* an accepted run of several messages under two registered invariants
C4_Witness ==
    /\ Returned
    /\ result = Ok
    /\ Len(constraints.inv) > 1
    /\ Len(msgs) > 1
    /\ \E j \in 1..Len(trace) : trace[j].ctx # NewContext

(* ------------------------------------------------------------------ *)
(* C5                                                                 *)
(* ------------------------------------------------------------------ *)

\* contexts on which each labelled predicate of the model fails somewhere
SampleContexts ==
    {[contents |-> a, reserves |-> b] : a \in {0, 30, 200}, b \in {0, 10}}

\* C5: a state name with no registered precondition or postcondition, and a
\* (from, to) pair with no registered transition rule, pass their check on
\* any context; with an empty registry check returns Ok for every message
\* sequence and applies every message.
C5_VacuousTruth ==
    /\ \A n \in StateNames, c \in SampleContexts \cup {fsm.ctx} :
           /\ constraints.pre[n] = NoPred =>
                  check_preconditions(constraints, n, c) = Ok
           /\ constraints.post[n] = NoPred =>
                  check_postconditions(constraints, n, c) = Ok
    /\ \A f \in StateNames, t \in StateNames, c \in SampleContexts :
           constraints.trans[<<f, t>>] = NoPred =>
               /\ check_transitions(constraints, f, t, c, fsm.ctx, msg, output) = Ok
               /\ check_transitions(constraints, f, t, ctx, c, Eat(c.contents),
                                    <<Buy(BUY_AMOUNT)>>) = Ok
    /\ (constraints = NewConstraints /\ Returned) =>
           /\ result = Ok
           /\ sends = Len(msgs)

\* an empty registry, a run that applied several messages and ended on a
\* context that registered predicates of the other registries reject
C5_Witness ==
    /\ constraints = NewConstraints
    /\ Returned
    /\ sends > 1
    /\ ~Holds("contents >= 50", fsm.ctx)
    /\ ~Holds("contents == 0", fsm.ctx)

(* ------------------------------------------------------------------ *)
(* C7                                                                 *)
(* ------------------------------------------------------------------ *)

\* the messages taken from msgs that send has finished with
Consumed == IF pc \in {"pre", "send"} THEN i - 1 ELSE i

\* C7: a send runs exactly one state function, the one held when it was
\* called, on the context and the message, holds the state function it
\* returned and returns its outputs; get_state then reports the new state
\* name and the mutated context; no message is ever pending: every message
\* handed to send has been executed when send returns.
C7_SendRunsOneStateFn ==
    /\ [][(pc = "send" /\ pc' = "sent") =>
            LET r == StateFn(fsm.state, fsm.ctx, msg, overflow_checks)
            IN  /\ ~r.panicked
                /\ fsm'.state = r.next
                /\ fsm'.ctx = r.ctx
                /\ output' = r.output
                /\ get_state(fsm') = <<r.next, r.ctx>>
                /\ sends' = sends + 1
                /\ trace' = Append(trace, [state |-> r.next, ctx |-> r.ctx,
                                           output |-> r.output])]_vars
    /\ [](pc \in {"post", "inv", "trans"} =>
            /\ to = fsm.state
            /\ ctx2 = fsm.ctx
            /\ <<to, ctx2>> = <<trace[sends].state, trace[sends].ctx>>)
    /\ [](pc # "panicked" /\ pc # "done" => sends = Consumed /\ Len(trace) = sends)

\* a send that changed the state name, the context and returned an output
C7_Witness ==
    /\ pc = "post"
    /\ from = "empty"
    /\ to = "full"
    /\ ctx2 # ctx
    /\ output = <<Buy(BUY_AMOUNT)>>
    /\ sends = 1

(* ------------------------------------------------------------------ *)
(* C8                                                                 *)
(* ------------------------------------------------------------------ *)

Step(name, contents, reserves, out) ==
    [state |-> name,
     ctx |-> [contents |-> contents, reserves |-> reserves],
     output |-> out]

\* the trajectory the scenario expects, one entry per message
ExpectedTrajectory ==
    << Step("full", 100, 9, <<Buy(10)>>),
       Step("full", 70, 9, <<>>),
       Step("empty", 0, 9, <<>>),
       Step("full", 100, 8, <<Buy(10)>>),
       Step("full", 50, 8, <<>>),
       Step("full", 50, 8, <<>>) >>

C9_EatBoundary ==
    /\ fsm.state = "full" =>
           \A pct \in 0..(U8 - 1) :
               LET c == fsm.ctx.contents
                   r == StateFn(fsm.state, fsm.ctx, Eat(pct), overflow_checks)
               IN  /\ ~r.panicked
                   /\ r.ctx.contents \in 0..c
                   /\ r.ctx.reserves = fsm.ctx.reserves
                   /\ pct >= c => (r.ctx.contents = 0 /\ r.next = "empty")
                   /\ pct < c => (r.ctx.contents = c - pct /\ r.next = "full")
    /\ (pc = "client" /\ from = "full" /\ msg.type = "Eat") =>
           /\ msg.arg >= ctx.contents =>
                  (ctx2.contents = 0 /\ to = "empty")
           /\ msg.arg < ctx.contents =>
                  (ctx2.contents = ctx.contents - msg.arg /\ to = "full")

\* an Eat of exactly the contents of the bowl emptied it
C9_Witness ==
    /\ pc = "client"
    /\ from = "full"
    /\ msg.type = "Eat"
    /\ ctx.contents > 0
    /\ msg.arg = ctx.contents
    /\ to = "empty"
    /\ ctx2.contents = 0

(* ------------------------------------------------------------------ *)
(* C10                                                                *)
(* ------------------------------------------------------------------ *)

CheckOrder == <<"pre", "send", "post", "inv", "trans">>

\* C10: within a step the checks run in the order precondition, send,
\* postcondition, invariants, transition rule; the error returned is that of
\* the earliest failing check and the later checks of the step are not
\* evaluated.
C10_FixedOrder ==
    /\ log = SubSeq(CheckOrder, 1, Len(log))
    /\ ReturnedErr =>
           LET post  == check_postconditions(constraints, from, ctx2)
               inv   == check_invariants(constraints, ctx2)
               trans == check_transitions(constraints, from, to, ctx, ctx2,
                                          msg, output)
           IN  /\ result.kind = "precondition" => Len(log) = 1
               /\ result.kind = "postcondition" =>
                      (Len(log) = 3 /\ result = post)
               /\ result.kind = "invariant" =>
                      (Len(log) = 4 /\ post = Ok /\ result = inv)
               /\ result.kind = "transition" =>
                      (Len(log) = 5 /\ post = Ok /\ inv = Ok /\ result = trans)

\* the postcondition, an invariant and the transition rule would all fail
\* on the same step: the postcondition's error is the one returned
C10_Witness ==
    /\ ReturnedErr
    /\ result.kind = "postcondition"
    /\ check_invariants(constraints, ctx2) # Ok
    /\ check_transitions(constraints, from, to, ctx, ctx2, msg, output) # Ok
    /\ log = <<"pre", "send", "post">>

(* ------------------------------------------------------------------ *)
(* C11                                                                *)
(* ------------------------------------------------------------------ *)

\* C11: the transition rule checked at a step is the one registered for the
\* pair (state name read before send, state name read after send), and the
\* Checker hands it all four pieces of evidence: the context before the
\* message was applied, the context after, the message and the outputs of
\* that send.
C11_FourPiecesOfEvidence ==
    pc = "trans" =>
        /\ TransitionArgs.from = from
        /\ TransitionArgs.to = fsm.state
        /\ DOMAIN TransitionArgs =
               {"from", "to", "init_ctx", "final_ctx", "msg", "output"}
        /\ TransitionArgs.init_ctx = ctx
        /\ TransitionArgs.final_ctx = fsm.ctx
        /\ TransitionArgs.msg = msg
        /\ TransitionArgs.output = output

(* ------------------------------------------------------------------ *)
(* C12                                                                *)
(* ------------------------------------------------------------------ *)

\* C12: the postcondition checked after a message is applied is the one
\* registered under the state name read before the send (the state
\* departed), evaluated on the context read after the send; the
\* postcondition of the state arrived at is not consulted unless the two
\* names are equal.
C12_PostOfStateDeparted ==
    /\ pc \in {"inv", "trans"} =>
           check_postconditions(constraints, from, ctx2) = Ok
    /\ (Returned /\ result.kind = "postcondition") =>
           /\ from = Replay(msgs, i - 1, overflow_checks).fsm.state
           /\ ctx2 = Replay(msgs, i, overflow_checks).fsm.ctx
           /\ result.at = from
           /\ result.label = constraints.post[from]
           /\ ~Holds(constraints.post[from], ctx2)
    /\ (Returned /\ result = Ok) =>
           \A k \in 1..Len(msgs) :
               check_postconditions(constraints,
                   Replay(msgs, k - 1, overflow_checks).fsm.state,
                   Replay(msgs, k, overflow_checks).fsm.ctx) = Ok

\* a step that changed the state name passed the postcondition check: the
\* postcondition of the state departed holds on the context after the send
\* (not on the one before), the one of the state arrived at does not
C12_Witness ==
    /\ pc = "inv"
    /\ from # to
    /\ constraints.post[from] # NoPred
    /\ ~Holds(constraints.post[from], ctx)
    /\ constraints.post[to] # NoPred
    /\ check_postconditions(constraints, to, ctx2) # Ok

(* ------------------------------------------------------------------ *)
(* C13                                                                *)
(* ------------------------------------------------------------------ *)

\* C13: during a check run only the send step changes the engine: reading
\* the state and evaluating preconditions, postconditions, invariants and
\* transition rules leave the state name and the context unchanged, and the
\* registry is never modified.
C13_OnlySendMutates ==
    /\ [][/\ pc # "send" => fsm' = fsm
          /\ constraints' = constraints]_vars
    /\ [](pc # "panicked" => fsm = Replay(msgs, sends, overflow_checks).fsm)

\* a whole step ran under the bowl registry, every kind of check was
\* evaluated and the engine has moved
C13_Witness ==
    /\ pc = "loop"
    /\ constraints = BowlConstraints
    /\ log = CheckOrder
    /\ i > 1
    /\ fsm # NewFsm

(* ------------------------------------------------------------------ *)
(* C14                                                                *)
(* ------------------------------------------------------------------ *)

\* every BowlMsg: Meow, Eat(pct) and StoreRpy Bowls(num) over all of u8
AllBowlMsgs ==
    {Meow} \cup {Eat(p) : p \in 0..(U8 - 1)} \cup {Bowls(n) : n \in 0..(U8 - 1)}

\* the state name agrees with the contents of the bowl
StateMatchesContents(name, c) ==
    /\ name = "empty" <=> c.contents = 0
    /\ name = "full" <=> (c.contents > 0 /\ c.contents <= FULL_BOWL)
    /\ c.contents <= FULL_BOWL

\* C14: from (empty, contents 0, reserves 10), after any sequence of Meow,
\* Eat(pct) and StoreRpy Bowls(num) messages the state name is empty exactly
\* when contents == 0 and full exactly when 0 < contents <= 100, contents
\* <= 100 always, and the registered preconditions and invariant hold; any
\* further message keeps it so.
C14_StateMatchesContents ==
    /\ StateMatchesContents(fsm.state, fsm.ctx)
    /\ check_preconditions(BowlConstraints, fsm.state, fsm.ctx) = Ok
    /\ check_invariants(BowlConstraints, fsm.ctx) = Ok
    /\ \A m \in AllBowlMsgs :
           LET r == StateFn(fsm.state, fsm.ctx, m, overflow_checks)
           IN  ~r.panicked => StateMatchesContents(r.next, r.ctx)

\* a restock reply filled the empty bowl, after the bowl had been filled
\* and emptied before
C14_Witness ==
    /\ pc = "client"
    /\ msg.type = "StoreRpy"
    /\ from = "empty"
    /\ to = "full"
    /\ ctx.reserves < MAX_RESERVES
    /\ ctx2.contents = FULL_BOWL

(* ------------------------------------------------------------------ *)
(* C15                                                                *)
(* ------------------------------------------------------------------ *)

\* C15: every step from empty to full is caused by a Meow or a StoreRpy and
\* goes from contents 0 to contents 100; every step from full to empty is
\* caused by an Eat and goes from contents > 0 to contents 0; so the two
\* registered transition rules pass on every step.
C15_TransitionLegality ==
    pc = "client" =>
        /\ (from = "empty" /\ to = "full") =>
               /\ msg.type \in {"Meow", "StoreRpy"}
               /\ ctx.contents = 0
               /\ ctx2.contents = FULL_BOWL
        /\ (from = "full" /\ to = "empty") =>
               /\ msg.type = "Eat"
               /\ ctx.contents > 0
               /\ ctx2.contents = 0
        /\ check_transitions(BowlConstraints, from, to, ctx, ctx2, msg, output) = Ok

\* an Eat emptied a bowl that a restock reply had filled
C15_Witness ==
    /\ pc = "client"
    /\ from = "full"
    /\ to = "empty"
    /\ msg.type = "Eat"
    /\ ctx.reserves > MAX_RESERVES

\* the last ClientSend returned: from, ctx, msg, to, ctx2 and output are
\* those of that send
Sent == pc = "client" /\ msg # NoMsg

(* ------------------------------------------------------------------ *)
(* C16                                                                *)
(* ------------------------------------------------------------------ *)

\* C16: a Meow received in state full is ignored: the state stays full,
\* contents and reserves are unchanged and nothing is emitted, whatever the
\* contents.
C16_MeowWhileFullIgnored ==
    /\ (Sent /\ from = "full" /\ msg = Meow) =>
           /\ to = "full"
           /\ ctx2 = ctx
           /\ fsm = [state |-> "full", ctx |-> ctx]
           /\ output = <<>>
    /\ fsm.state = "full" =>
           StateFn(fsm.state, fsm.ctx, Meow, overflow_checks)
               = Next_("full", fsm.ctx, <<>>)

\* a Meow on a partly eaten bowl with reserves left
C16_Witness ==
    /\ Sent
    /\ from = "full"
    /\ msg = Meow
    /\ ctx.contents = 70
    /\ ctx.reserves > 0
    /\ ctx2.contents = 70

(* ------------------------------------------------------------------ *)
(* C17                                                                *)
(* ------------------------------------------------------------------ *)

\* C17: a send emits exactly one Buy(10) when it is a Meow in state empty
\* that fills the bowl and leaves reserves <= REFILL_THRESHOLD after the
\* decrement; every other send (Eat, StoreRpy, Meow while full, Meow with no
\* reserves, filling Meow leaving reserves > 9) emits nothing.
C17_RestockRequest ==
    Sent =>
        LET fills == from = "empty" /\ msg = Meow /\ ctx.reserves > 0
        IN  IF fills /\ ctx.reserves - 1 <= REFILL_THRESHOLD
            THEN /\ output = <<Buy(BUY_AMOUNT)>>
                 /\ to = "full"
                 /\ ctx2.reserves = ctx.reserves - 1
            ELSE output = <<>>

\* a filling Meow that leaves exactly REFILL_THRESHOLD bowls emits the request
C17_Witness ==
    /\ Sent
    /\ from = "empty"
    /\ msg = Meow
    /\ ctx2.reserves = REFILL_THRESHOLD
    /\ output = <<Buy(BUY_AMOUNT)>>

(* ------------------------------------------------------------------ *)
(* C18                                                                *)
(* ------------------------------------------------------------------ *)

\* C18: the u8 arithmetic on reserves never underflows or overflows: no send
\* panics, and a StoreRpy Bowls(num) leaves reserves + (num - 1) when
\* received in state empty and reserves + num when received in state full,
\* within 0..255.
C18_NoOverflow ==
    /\ pc # "panicked"
    /\ (Sent /\ msg.type = "StoreRpy") =>
           /\ ctx2.reserves =
                  ctx.reserves + (IF from = "empty" THEN msg.arg - 1 ELSE msg.arg)
           /\ ctx2.reserves \in 0..(U8 - 1)

(* ------------------------------------------------------------------ *)
(* C19                                                                *)
(* ------------------------------------------------------------------ *)

RECURSIVE SingleCall(_, _, _, _)
SingleCall(c, ms, k, oc) ==
    IF k > Len(ms)
    THEN [result |-> Ok, fsm |-> Replay(ms, Len(ms), oc).fsm]
    ELSE LET v == StepVerdict(c, ms, k, oc)
         IN  IF v = Ok
             THEN SingleCall(c, ms, k + 1, oc)
             ELSE [result |-> v,
                   fsm    |-> IF v.kind = "precondition"
                              THEN Replay(ms, k - 1, oc).fsm
                              ELSE Replay(ms, k, oc).fsm]

\* C20: the Checker's engine persists across calls of check: a call on B
\* after calls that returned Ok on A returns the result, and leaves the state
\* name and context, of a single call on A followed by B; a call starts from
\* the engine the earlier calls left, never from the initial one.
C20_EnginePersists ==
    /\ Returned =>
           [result |-> result, fsm |-> fsm]
               = SingleCall(constraints, prior \o msgs, 1, overflow_checks)
    /\ (pc = "loop" /\ i = 0) =>
           fsm = Replay(prior, Len(prior), overflow_checks).fsm

\* a later call returned Ok and left an engine that the same messages
\* would not have left on a new Checker
C20_Witness ==
    /\ Returned
    /\ result = Ok
    /\ prior # <<>>
    /\ msgs # <<>>
    /\ fsm # Replay(msgs, Len(msgs), overflow_checks).fsm
    /\ fsm # NewFsm

====
